---- MODULE Spec2Model ----
(***************************************************************************)
(* Model of the SEO checker's crawler (src/app.py, src/utils.py).          *)
(*                                                                         *)
(* A URL is a sequence of one-character strings, so that the string        *)
(* operations of the code (unquote, lower, endswith, slicing, rstrip,      *)
(* urlparse) are computed character by character.                          *)
(*                                                                         *)
(* The specifications share the variables:                                 *)
(*   Spec      the crawl loop of main() over a site revealed fetch by      *)
(*             fetch (LiveSpec adds the fairness of a running loop);       *)
(*   NormSpec  normalize_url applied (twice) to bounded input strings;     *)
(*   LinkSpec  the first iteration of the loop on a seed page whose link   *)
(*             elements are drawn from a pool of every kind of href;       *)
(*   HeadSpec  check_heading_order on bounded lists of headings;           *)
(*   KwSpec    check_keyword_repetition on bounded texts;                  *)
(*   PageSpec  the first iteration of the loop on a seed page whose        *)
(*             markup is built element by element, with the analyses that  *)
(*             raise on it;                                                *)
(*   TwinSpec  two crawls, one after the other, of a site that answers     *)
(*             every url the same way both times;                          *)
(*   HtmlSpec  check_html_syntax on bounded texts.                         *)
(***************************************************************************)
EXTENDS Integers, Sequences, FiniteSets, TLC

VARIABLES
    pc,             \* main(): "idle" (form shown), "loop" (while urls_to_visit), "done"
    seed,           \* url typed into the form
    base_domain,    \* urlparse(url).netloc of the seed
    visited_urls,   \* set of normalized urls
    urls_to_visit,  \* set of raw urls (the frontier)
    results,        \* list of page reports
    progress,       \* <<numerator, denominator>> of the last progress computed (unclamped)
    site,           \* responses served so far: list of [url, error, status_code]
    linked,         \* href/src values seen on the pages served without error or 404
    dead_end,       \* a page served with status 404 carried a link that was new
                    \* (kept by the link filter, not visited, not in the frontier)
    gets,           \* log of HTTP GETs issued: sequence of [url, by]
    analyses,       \* log of urls whose markup was analysed by get_page_info
    extracted,      \* every link ever returned by get_all_links
    popped,         \* every url ever popped from urls_to_visit
    nstage,         \* NormSpec: "build", "once", "twice", or "off" under Spec
    input,          \* NormSpec: the pieces of the url string passed to normalize_url
    out1,           \* NormSpec: normalize_url(input)
    out2,           \* NormSpec: normalize_url(out1)
    elements,       \* LinkSpec: href/src values of the a, frame and iframe
                    \* elements of the seed page
    hstage,         \* HeadSpec: "build", "checked", or "off"
    headings,       \* HeadSpec: soup.find_all(['h1', ..., 'h6']), in document order
    formatted_issues,       \* HeadSpec: first value returned by check_heading_order
    english_only_headings,  \* HeadSpec: second value returned
    kstage,         \* KwSpec: "build", "checked", or "off"
    title_words,    \* KwSpec: the space-separated pieces of the text passed to
                    \* check_keyword_repetition
    repeated_words, \* KwSpec: the list returned
    markup,         \* PageSpec: what the parsed markup of the seed page holds
    web,            \* TwinSpec: the response of the site for each normalized url
    run,            \* TwinSpec: 1 or 2, the crawl that is running; 0 elsewhere
    first_results,  \* TwinSpec: the reports of the first crawl
    xstage,         \* HtmlSpec: "build", "checked", or "off"
    html_pieces,    \* HtmlSpec: the pieces of the text passed to check_html_syntax
    unclosed        \* HtmlSpec: the entries of unclosed_tags of every tag

crawlVars == <<pc, seed, base_domain, visited_urls, urls_to_visit, results,
               progress, site, linked, dead_end, gets, analyses, extracted, popped>>
normVars == <<nstage, input, out1, out2>>
linkVars == <<elements>>
headVars == <<hstage, headings, formatted_issues, english_only_headings>>
kwVars == <<kstage, title_words, repeated_words>>
\* the variables of the specifications of single functions
pageVars == <<markup>>
twinVars == <<web, run, first_results>>
htmlVars == <<xstage, html_pieces, unclosed>>
unitVars == <<normVars, linkVars, headVars, kwVars, pageVars, twinVars, htmlVars>>
vars == <<pc, seed, base_domain, visited_urls, urls_to_visit, results,
          progress, site, linked, dead_end, gets,
          analyses, extracted, popped, nstage, input, out1, out2, elements,
          hstage, headings, formatted_issues, english_only_headings,
          kstage, title_words, repeated_words, markup, web, run, first_results,
          xstage, html_pieces, unclosed>>

----------------------------------------------------------------------------
(* Characters and Python string primitives *)

\* printable ASCII, code points 0x20 .. 0x7E in order (the grave accent, which
\* the parser cannot read in a string, is written U+0060)
Ascii ==
    <<" ", "!", "\"", "#", "$", "%", "&", "'", "(", ")", "*", "+", ",", "-", ".", "/",
      "0", "1", "2", "3", "4", "5", "6", "7", "8", "9", ":", ";", "<", "=", ">", "?",
      "@", "A", "B", "C", "D", "E", "F", "G", "H", "I", "J", "K", "L", "M", "N", "O",
      "P", "Q", "R", "S", "T", "U", "V", "W", "X", "Y", "Z", "[", "\\", "]", "^", "_",
      "U+0060", "a", "b", "c", "d", "e", "f", "g", "h", "i", "j", "k", "l", "m", "n", "o",
      "p", "q", "r", "s", "t", "u", "v", "w", "x", "y", "z", "{", "|", "}", "~">>

\* U+FFFD, what decode(errors='replace') yields for a byte that is not UTF-8
ReplacementChar == "U+FFFD"

AsciiIndex ==
    [c \in {Ascii[i] : i \in 1..Len(Ascii)} |-> CHOOSE i \in 1..Len(Ascii) : Ascii[i] = c]

\* the characters of the model outside ASCII, named by their code points
CodePoints ==
    [c \in {"U+3057", "U+304B", "U+306A", "U+3089", "U+30A4", "U+30BF", "U+30C8",
            "U+30EB", "U+5150", "U+5C0F", "U+6B6F",
            "U+75C5", "U+7642", "U+79D1", "U+8A3A", "U+9662"} |->
        CASE c = "U+3057" -> 12375   \* hiragana shi
          [] c = "U+304B" -> 12363   \* hiragana ka
          [] c = "U+306A" -> 12394   \* hiragana na
          [] c = "U+3089" -> 12425   \* hiragana ra
          [] c = "U+30A4" -> 12452   \* katakana i
          [] c = "U+30BF" -> 12479   \* katakana ta
          [] c = "U+30C8" -> 12488   \* katakana to
          [] c = "U+30EB" -> 12523   \* katakana ru
          [] c = "U+5150" -> 20816   \* kanji of shoni (2nd)
          [] c = "U+5C0F" -> 23567   \* kanji of shoni (1st)
          [] c = "U+6B6F" -> 27503   \* kanji of shika (1st)
          [] c = "U+75C5" -> 30149   \* kanji of byoin (1st)
          [] c = "U+7642" -> 30274   \* kanji of shinryo (2nd)
          [] c = "U+79D1" -> 31185   \* kanji of shika (2nd)
          [] c = "U+8A3A" -> 35386   \* kanji of shinryo (1st)
          [] c = "U+9662" -> 38498]  \* kanji of byoin (2nd)

\* ord(c); every other character of the model outside Ascii is U+FFFD
Ord(c) == IF c \in DOMAIN AsciiIndex THEN 31 + AsciiIndex[c]
          ELSE IF c \in DOMAIN CodePoints THEN CodePoints[c]
          ELSE 65533

\* bytes(b).decode('utf-8', 'replace') for one byte that is not part of a
\* multi-byte sequence (the model's escapes never form one)
Chr(b) == IF b >= 32 /\ b <= 126 THEN Ascii[b - 31]
          ELSE IF b < 128 THEN "\\x" \o ToString(b)
          ELSE ReplacementChar

\* str.lower() on one character
LowerChar(c) == IF Ord(c) >= 65 /\ Ord(c) <= 90 THEN Chr(Ord(c) + 32) ELSE c

lower(s) == [i \in 1..Len(s) |-> LowerChar(s[i])]

endswith(s, suf) ==
    /\ Len(s) >= Len(suf)
    /\ SubSeq(s, Len(s) - Len(suf) + 1, Len(s)) = suf

startswith(s, pre) ==
    /\ Len(s) >= Len(pre)
    /\ SubSeq(s, 1, Len(pre)) = pre

\* s[:-n]
DropLast(s, n) == IF n >= Len(s) THEN <<>> ELSE SubSeq(s, 1, Len(s) - n)

\* c in s
Contains(s, c) == \E i \in 1..Len(s) : s[i] = c

\* s.strip() for the whitespace of the model, the space
RECURSIVE strip(_)
strip(s) ==
    IF s = <<>> THEN s
    ELSE IF s[1] = " " THEN strip(Tail(s))
    ELSE IF s[Len(s)] = " " THEN strip(SubSeq(s, 1, Len(s) - 1))
    ELSE s

\* sub in s
InStr(sub, s) ==
    \E i \in 1..(Len(s) - Len(sub) + 1) : SubSeq(s, i, i + Len(sub) - 1) = sub

\* s.rstrip('/')
RECURSIVE rstripSlash(_)
rstripSlash(s) ==
    IF s /= <<>> /\ s[Len(s)] = "/" THEN rstripSlash(DropLast(s, 1)) ELSE s

\* index of the first character of s that is in cs, or Len(s)+1
RECURSIVE FindFirst(_, _, _)
FindFirst(s, cs, i) ==
    IF i > Len(s) THEN Len(s) + 1
    ELSE IF s[i] \in cs THEN i
    ELSE FindFirst(s, cs, i + 1)

HexDigits == {"0", "1", "2", "3", "4", "5", "6", "7", "8", "9",
              "a", "b", "c", "d", "e", "f", "A", "B", "C", "D", "E", "F"}

HexVal(c) == IF Ord(c) >= 48 /\ Ord(c) <= 57 THEN Ord(c) - 48
             ELSE IF Ord(c) >= 97 THEN Ord(c) - 87
             ELSE Ord(c) - 55

\* urllib.parse.unquote(url, encoding='utf-8'): every %XX with two hex
\* digits becomes the character of that byte, anything else is kept
RECURSIVE unquote(_)
unquote(s) ==
    IF s = <<>> THEN <<>>
    ELSE IF /\ s[1] = "%"
            /\ Len(s) >= 3
            /\ s[2] \in HexDigits
            /\ s[3] \in HexDigits
         THEN <<Chr(16 * HexVal(s[2]) + HexVal(s[3]))>> \o unquote(SubSeq(s, 4, Len(s)))
         ELSE <<s[1]>> \o unquote(Tail(s))

----------------------------------------------------------------------------
(* normalize_url *)

SlashIndexHtml == <<"/", "i", "n", "d", "e", "x", ".", "h", "t", "m", "l">>
IndexHtml      == <<"i", "n", "d", "e", "x", ".", "h", "t", "m", "l">>
DotHtml        == <<".", "h", "t", "m", "l">>
DotPdf         == <<".", "p", "d", "f">>

\* FoldIndexHtml matching index.html in lower case only
FoldIndexHtml_CaseSensitive(decoded_url) ==
    IF endswith(decoded_url, SlashIndexHtml) THEN DropLast(decoded_url, 10)
    ELSE IF endswith(decoded_url, IndexHtml) THEN DropLast(decoded_url, 9)
    ELSE decoded_url

\* the index.html branch of normalize_url
FoldIndexHtml(decoded_url) ==
    IF endswith(lower(decoded_url), SlashIndexHtml) THEN DropLast(decoded_url, 10)
    ELSE IF endswith(lower(decoded_url), IndexHtml) THEN DropLast(decoded_url, 9)
    ELSE decoded_url

\* the trailing-slash branch of normalize_url
TrailingSlash(decoded_url) ==
    IF endswith(lower(decoded_url), DotHtml) THEN decoded_url
    ELSE IF ~endswith(decoded_url, <<"/">>) THEN decoded_url \o <<"/">>
    ELSE decoded_url

normalize_url(url) == TrailingSlash(FoldIndexHtml(unquote(url)))

----------------------------------------------------------------------------
(* urllib.parse: urlparse, parse_qs, urljoin *)

Letters ==
    {"a", "b", "c", "d", "e", "f", "g", "h", "i", "j", "k", "l", "m",
     "n", "o", "p", "q", "r", "s", "t", "u", "v", "w", "x", "y", "z",
     "A", "B", "C", "D", "E", "F", "G", "H", "I", "J", "K", "L", "M",
     "N", "O", "P", "Q", "R", "S", "T", "U", "V", "W", "X", "Y", "Z"}

SchemeChars ==
    Letters \cup {"0", "1", "2", "3", "4", "5", "6", "7", "8", "9", "+", "-", "."}

\* s[i:]
From(s, i) == IF i > Len(s) THEN <<>> ELSE SubSeq(s, i, Len(s))

\* s[:i-1]
Before(s, i) == IF i <= 1 THEN <<>> ELSE SubSeq(s, 1, i - 1)

\* urlsplit: scheme, then //netloc up to the first of / ? #, then the
\* fragment after the first #, then the query after the first ?
urlparse(url) ==
    LET colon     == FindFirst(url, {":"}, 1)
        hasScheme == /\ colon > 1
                     /\ colon <= Len(url)
                     /\ url[1] \in Letters
                     /\ \A i \in 1..(colon - 1) : url[i] \in SchemeChars
        scheme    == IF hasScheme THEN lower(Before(url, colon)) ELSE <<>>
        u1        == IF hasScheme THEN From(url, colon + 1) ELSE url
        hasNetloc == startswith(u1, <<"/", "/">>)
        delim     == FindFirst(u1, {"/", "?", "#"}, 3)
        netloc    == IF hasNetloc THEN SubSeq(u1, 3, delim - 1) ELSE <<>>
        u2        == IF hasNetloc THEN From(u1, delim) ELSE u1
        hash      == FindFirst(u2, {"#"}, 1)
        fragment  == From(u2, hash + 1)
        u3        == Before(u2, hash)
        qmark     == FindFirst(u3, {"?"}, 1)
        query     == From(u3, qmark + 1)
        path      == Before(u3, qmark)
    IN  [scheme |-> scheme, netloc |-> netloc, path |-> path,
         query |-> query, fragment |-> fragment]

\* urlunparse for a url with a netloc
urlunparse(p) ==
    (IF p.scheme /= <<>> THEN p.scheme \o <<":">> ELSE <<>>)
    \o <<"/", "/">> \o p.netloc
    \o (IF p.path /= <<>> /\ p.path[1] /= "/" THEN <<"/">> ELSE <<>>) \o p.path
    \o (IF p.query /= <<>> THEN <<"?">> \o p.query ELSE <<>>)
    \o (IF p.fragment /= <<>> THEN <<"#">> \o p.fragment ELSE <<>>)

\* s.split(c)
RECURSIVE Split(_, _)
Split(s, c) ==
    LET i == FindFirst(s, {c}, 1)
    IN  IF i > Len(s) THEN <<s>>
        ELSE <<Before(s, i)>> \o Split(From(s, i + 1), c)

\* c.join(parts)
RECURSIVE Join(_, _)
Join(parts, c) ==
    IF parts = <<>> THEN <<>>
    ELSE IF Len(parts) = 1 THEN parts[1]
    ELSE parts[1] \o <<c>> \o Join(Tail(parts), c)

\* filter(None, parts)
RECURSIVE NonEmpty(_)
NonEmpty(parts) ==
    IF parts = <<>> THEN <<>>
    ELSE IF parts[1] = <<>> THEN NonEmpty(Tail(parts))
    ELSE <<parts[1]>> \o NonEmpty(Tail(parts))

\* urljoin's loop over the segments: .. removes the last segment kept, . is
\* skipped
RECURSIVE RemoveDots(_, _)
RemoveDots(segments, resolved) ==
    IF segments = <<>> THEN resolved
    ELSE IF segments[1] = <<".", ".">>
         THEN RemoveDots(Tail(segments), DropLast(resolved, 1))
    ELSE IF segments[1] = <<".">> THEN RemoveDots(Tail(segments), resolved)
    ELSE RemoveDots(Tail(segments), Append(resolved, segments[1]))

\* segments[1:-1] = filter(None, segments[1:-1])
Squeeze(segments) ==
    IF Len(segments) < 3 THEN segments
    ELSE <<segments[1]>>
         \o NonEmpty(SubSeq(segments, 2, Len(segments) - 1))
         \o <<segments[Len(segments)]>>

\* the segments of the merged path: base_parts is the base path without its
\* last segment, unless that is empty
Segments(bp, rp) ==
    IF rp[1] = <<>> /\ Len(rp) > 1 THEN rp
    ELSE Squeeze((IF bp[Len(bp)] /= <<>> THEN DropLast(bp, 1) ELSE bp) \o rp)

\* the resolved path, '/' when it is empty
JoinResolved(segments) ==
    LET resolved == RemoveDots(segments, <<>>)
        closed   == IF segments[Len(segments)] \in {<<".">>, <<".", ".">>}
                    THEN Append(resolved, <<>>) ELSE resolved
    IN  IF Join(closed, "/") = <<>> THEN <<"/">> ELSE Join(closed, "/")

\* the path of urljoin for a reference with a path and no netloc
ResolvePath(bpath, path) ==
    CHOOSE resolved_path \in
        { JoinResolved(segments) :
            segments \in { Segments(bp, rp) :
                             bp \in {Split(bpath, "/")}, rp \in {Split(path, "/")} } } : TRUE

\* urljoin on the parsed base b and the parsed reference r
JoinParsed(b, r, url, href) ==
    LET scheme == IF r.scheme = <<>> THEN b.scheme ELSE r.scheme
    IN  IF href = <<>> THEN url
        ELSE IF scheme /= b.scheme THEN href
        ELSE IF r.netloc /= <<>> THEN urlunparse([r EXCEPT !.scheme = scheme])
        ELSE IF r.path = <<>>
             THEN urlunparse([scheme |-> scheme, netloc |-> b.netloc, path |-> b.path,
                              query |-> IF r.query = <<>> THEN b.query ELSE r.query,
                              fragment |-> r.fragment])
        ELSE urlunparse([scheme |-> scheme, netloc |-> b.netloc,
                         path |-> ResolvePath(b.path, r.path),
                         query |-> r.query, fragment |-> r.fragment])

\* urljoin(url, href) for urls of a scheme with relative references and a
\* netloc (http), without ;parameters
urljoin(url, href) ==
    CHOOSE joined \in
        { JoinParsed(b, r, url, href) :
            b \in {urlparse(url)}, r \in {urlparse(href)} } : TRUE

\* the keys of parse_qs(query): fields name=value with a non-empty value
\* (blank values are dropped), the name with + as space and unquoted
QueryParams(query) ==
    LET fields == Split(query, "&")
        eq(f)  == FindFirst(f, {"="}, 1)
        name(f) == unquote([i \in 1..(eq(f) - 1) |->
                               IF f[i] = "+" THEN " " ELSE f[i]])
    IN  { name(fields[k]) : k \in { j \in 1..Len(fields) :
                                      eq(fields[j]) < Len(fields[j]) } }

preview_params ==
    { <<"p", "r", "e", "v", "i", "e", "w">>,
      <<"p", "r", "e", "v", "i", "e", "w", "_", "i", "d">>,
      <<"p", "r", "e", "v", "i", "e", "w", "_", "n", "o", "n", "c", "e">>,
      <<"_", "t", "h", "u", "m", "b", "n", "a", "i", "l", "_", "i", "d">> }

is_preview_url(url) ==
    \E param \in preview_params : param \in QueryParams(urlparse(url).query)

is_anchor_link(url) == Contains(url, "#")

----------------------------------------------------------------------------
(* The site: what the HTTP transport and the markup parser hand to the code *)

Origin == <<"h", "t", "t", "p", ":", "/", "/", "x">>
Other  == <<"h", "t", "t", "p", ":", "/", "/", "y">>

\* href / src attributes a page can carry (all absolute)
Hrefs ==
    { Origin \o <<"/">>,
      Origin \o <<"/", "a">>,
      Origin \o <<"/", "%", "6", "1", "/">>,
      Origin \o <<"/", "%", "2", "5", "6", "1">>,
      Origin \o <<"/", "d", ".", "P", "D", "F">>,
      Other \o <<"/">> }

\* urls the user can type into the form
Seeds ==
    { Origin \o <<"/">>,
      Origin \o <<"/", "i", "n", "d", "e", "x", ".", "h", "t", "m", "l">>,
      Origin \o <<"/", "?", "p", "r", "e", "v", "i", "e", "w", "=", "1">> }

\* href / src attributes of the seed page of LinkSpec: relative and
\* absolute references of every kind that the link filter tells apart, and
\* references that differ only in trailing slashes
LinkPool ==
    { <<"/", "a">>,
      <<"/", "a", "/", "/">>,
      <<"b", ".", "h", "t", "m", "l">>,
      <<"#", "s", "e", "c", "t", "i", "o", "n">>,
      Other \o <<"/">>,
      <<"/", "d", ".", "P", "D", "F">>,
      <<"/", "?", "p", "r", "e", "v", "i", "e", "w", "=", "1">>,
      <<"/", "c", "/", "I", "n", "d", "e", "x", ".", "h", "t", "m", "l">>,
      <<"/", "i", "n", "d", "e", "x", ".", "h", "t", "m", "l", "/">>,
      Origin \o <<"/">> }

\* href / src attributes of the seed page of TwinSpec: two raw forms of the
\* url of the blog page, and the page a
TwinHrefs ==
    { Origin \o <<"/", "b", "l", "o", "g", "/">>,
      Origin \o <<"/", "%", "6", "2", "l", "o", "g", "/">>,
      Origin \o <<"/", "a">> }

\* at most MaxLinks link elements on a page
MaxLinks == 2

\* at most MaxElements link elements on the seed page of LinkSpec
MaxElements == 5

LinkSets == { hs \in SUBSET Hrefs : Cardinality(hs) <= MaxLinks }

\* the five analyses of get_page_info, in the order in which it runs them
Heuristics == <<"title", "description", "heading", "image", "html">>

\* what the parsed markup of a page holds for the analyses: the title
\* element, the content of the description and og:description meta
\* elements (empty when absent), the h1..h6 and img elements, the part of
\* the text that check_html_syntax looks at, and the analyses that raise
\* on this markup. PlainPage is a page without any of them.
PlainPage ==
    [has_title |-> FALSE, title |-> <<>>, meta_description |-> <<>>,
     og_description |-> <<>>, headings |-> <<>>, images |-> <<>>,
     html_content |-> <<>>, raises |-> {}]

\* the outcome of requests.get(url) on this site: a transport failure
\* (timeout, DNS, refused), or a status code with the page's link elements
Responses ==
    { [error |-> TRUE, status_code |-> 0, hrefs |-> {}, page |-> PlainPage] }
    \cup { [error |-> FALSE, status_code |-> 500, hrefs |-> {}, page |-> PlainPage] }
    \cup { [error |-> FALSE, status_code |-> c, hrefs |-> hs, page |-> PlainPage] :
             c \in {200, 404}, hs \in LinkSets }

----------------------------------------------------------------------------
(* get_all_links *)

\* LinkKept without the test of the domain
LinkKept_AnyDomain(absolute_url, domain) ==
    /\ ~endswith(lower(urlparse(absolute_url).path), IndexHtml)
    /\ ~is_anchor_link(absolute_url)
    /\ ~endswith(lower(absolute_url), DotPdf)
    /\ ~is_preview_url(absolute_url)

\* the filter on one absolute url
LinkKept(absolute_url, domain) ==
    /\ ~endswith(lower(urlparse(absolute_url).path), IndexHtml)
    /\ urlparse(absolute_url).netloc = domain
    /\ ~is_anchor_link(absolute_url)
    /\ ~endswith(lower(absolute_url), DotPdf)
    /\ ~is_preview_url(absolute_url)

\* the form in which a kept link is added
LinkForm(absolute_url) ==
    LET normalized_url == rstripSlash(absolute_url)
    IN  IF endswith(lower(normalized_url), DotHtml) THEN normalized_url
        ELSE normalized_url \o <<"/">>

\* the loop over the link elements of the page fetched at url
PageLinks(url, domain, hrefs) ==
    { LinkForm(absolute_url) :
        absolute_url \in { a \in { urljoin(url, href) : href \in hrefs } :
                             LinkKept(a, domain) } }

Domains == { urlparse(url).netloc : url \in Seeds }

\* PageLinks of each single link element (the loop treats each on its own);
\* the absolute hrefs resolve to the same url on every page, the relative
\* ones of LinkPool are resolved on the seed page of LinkSpec
LinkTable ==
    [domain \in Domains, h \in Hrefs \cup LinkPool \cup TwinHrefs |->
        PageLinks(Origin \o <<"/">>, domain, {h})]

\* the response is one that raise_for_status lets through
Served(response) == ~response.error /\ response.status_code < 400

\* get_all_links without its early return on status 404
get_all_links_No404Return(url, domain, response) ==
    IF response.error THEN {}
    ELSE IF response.status_code >= 400 /\ response.status_code /= 404 THEN {}
    ELSE UNION { LinkTable[domain, h] : h \in response.hrefs }

\* get_all_links(url, base_domain): it fetches url itself
get_all_links(url, domain, response) ==
    IF response.error THEN {}
    ELSE IF response.status_code = 404 THEN {}
    ELSE IF response.status_code >= 400 THEN {}
    ELSE UNION { LinkTable[domain, h] : h \in response.hrefs }

\* every url the crawl can hold, with its normalized form and preview test
CrawlUrls ==
    Seeds \cup UNION { LinkTable[d, h] : d \in Domains, h \in Hrefs \cup TwinHrefs }

Normalized == [url \in CrawlUrls |-> normalize_url(url)]

IsPreview == [url \in CrawlUrls |-> is_preview_url(url)]

\* urlparse(url).netloc, the host that a request for url goes to
Netloc == [url \in CrawlUrls |-> urlparse(url).netloc]

----------------------------------------------------------------------------
(* contains_japanese, check_heading_order *)

\* [\u3040-\u309F\u30A0-\u30FF\u4E00-\u9FFF]
JapaneseChar(c) ==
    \/ Ord(c) >= 12352 /\ Ord(c) <= 12447
    \/ Ord(c) >= 12448 /\ Ord(c) <= 12543
    \/ Ord(c) >= 19968 /\ Ord(c) <= 40959

contains_japanese(text) == \E i \in 1..Len(text) : JapaneseChar(text[i])

Digits == {"0", "1", "2", "3", "4", "5", "6", "7", "8", "9"}

\* re.match(r'^[a-zA-Z0-9\s\-_.,!?]*$', heading_text) on a stripped text
EnglishPattern(text) ==
    \A i \in 1..Len(text) :
        text[i] \in Letters \cup Digits \cup {" ", "-", "_", ".", ",", "!", "?"}

\* JumpIssue flagging every change of level other than +1
JumpIssue_Abs(prev_level, current_level) ==
    \/ current_level - prev_level > 1
    \/ prev_level - current_level > 1

\* current_level - prev_level > 1 and current_level > prev_level
JumpIssue(prev_level, current_level) ==
    /\ current_level - prev_level > 1
    /\ current_level > prev_level

\* the issues that the heading at position i adds; a heading is
\* [level |-> int(heading.name[1]), text |-> heading.get_text().strip()]
HeadingIssue(i, heading, prev_level) ==
    IF prev_level > 0
    THEN IF JumpIssue(prev_level, heading.level)
         THEN <<[kind |-> "jump", from |-> prev_level, to |-> heading.level,
                 text |-> heading.text]>>
         ELSE <<>>
    ELSE IF heading.level /= 1 /\ i = 1
         THEN <<[kind |-> "first", from |-> 0, to |-> heading.level,
                 text |-> heading.text]>>
         ELSE <<>>

\* the entry that the heading adds to english_only_headings
EnglishOnly(heading) ==
    IF /\ heading.text /= <<>>
       /\ ~contains_japanese(heading.text)
       /\ EnglishPattern(heading.text)
    THEN <<[name |-> heading.level, text |-> heading.text]>>
    ELSE <<>>

\* for i, heading in enumerate(headings, 1), from position i on: the pair
\* <<heading_issues, english_only_headings>>
RECURSIVE HeadingLoop(_, _, _, _, _)
HeadingLoop(hs, i, prev_level, heading_issues, english_only) ==
    IF i > Len(hs) THEN <<heading_issues, english_only>>
    ELSE HeadingLoop(hs, i + 1, hs[i].level,
                     heading_issues \o HeadingIssue(i, hs[i], prev_level),
                     english_only \o EnglishOnly(hs[i]))

\* for i, issue in enumerate(heading_issues, 1): f"{i}: {issue}"
Numbered(heading_issues) ==
    [i \in 1..Len(heading_issues) |-> [n |-> i, issue |-> heading_issues[i]]]

\* check_heading_order(soup): <<formatted_issues, english_only_headings>>
check_heading_order(hs) ==
    LET found == HeadingLoop(hs, 1, 0, <<>>, <<>>)
    IN  <<Numbered(found[1]), found[2]>>

----------------------------------------------------------------------------
(* check_keyword_repetition *)

Shoni  == <<"U+5C0F", "U+5150">>
Shika  == <<"U+6B6F", "U+79D1">>
Ka     == <<"U+79D1">>
Byoin  == <<"U+75C5", "U+9662">>
Kara   == <<"U+304B", "U+3089">>

\* the stop words that can be written with the characters of the model
stop_words == { Kara, <<"|">>, <<"-">> }

\* the terms of medical_specialties that can be written with the characters
\* of the model: shika, shonika, shonishika, byoin
medical_specialties == { Shika, Shoni \o Ka, Shoni \o Shika, Byoin }

\* [一-龯ぁ-んァ-ンa-zA-Z0-9]
WordChar(c) ==
    \E o \in {Ord(c)} :
        \/ o >= 19968 /\ o <= 40879
        \/ o >= 12353 /\ o <= 12435
        \/ o >= 12449 /\ o <= 12531
        \/ c \in Letters \cup Digits

\* the n-th smallest element of a set of positions
Nth(positions, n) ==
    CHOOSE i \in positions : Cardinality({ j \in positions : j < i }) = n - 1

\* the runs of s between the positions starts and the positions ends
Runs(s, starts, ends) ==
    [n \in 1..Cardinality(starts) |-> SubSeq(s, Nth(starts, n), Nth(ends, n))]

\* re.findall(r'[...]+', text): the maximal runs of word characters, word
\* being the positions of the word characters
FindAll(s) ==
    CHOOSE found \in
      { Runs(s, { i \in word : i - 1 \notin word }, { i \in word : i + 1 \notin word }) :
          word \in { { i \in DOMAIN s : WordChar(s[i]) } } } : TRUE

\* the while loop over temp_words from index i (1-based) on: compounds of
\* three, then of two words that are medical terms are taken as one word
RECURSIVE CompoundLoop(_, _, _)
CompoundLoop(temp_words, i, words) ==
    IF i > Len(temp_words) THEN words
    ELSE IF /\ i + 2 <= Len(temp_words)
            /\ temp_words[i] \o temp_words[i + 1] \o temp_words[i + 2]
                   \in medical_specialties
         THEN CompoundLoop(temp_words, i + 3,
                  Append(words, temp_words[i] \o temp_words[i + 1] \o temp_words[i + 2]))
    ELSE IF /\ i + 1 <= Len(temp_words)
            /\ temp_words[i] \o temp_words[i + 1] \in medical_specialties
         THEN CompoundLoop(temp_words, i + 2,
                  Append(words, temp_words[i] \o temp_words[i + 1]))
    ELSE IF Len(temp_words[i]) >= 2 /\ temp_words[i] \notin stop_words
         THEN CompoundLoop(temp_words, i + 1, Append(words, temp_words[i]))
    ELSE CompoundLoop(temp_words, i + 1, words)

\* the keys of word_count in insertion order
RECURSIVE CountedWords(_, _)
CountedWords(words, keys) ==
    IF words = <<>> THEN keys
    ELSE IF \/ words[1] \in medical_specialties
            \/ \E k \in DOMAIN keys : keys[k] = words[1]
         THEN CountedWords(Tail(words), keys)
    ELSE CountedWords(Tail(words), Append(keys, words[1]))

\* word_count[word]
Count(word, words) == Cardinality({ i \in DOMAIN words : words[i] = word })

\* IsRepeated asking for more than 3 occurrences
IsRepeated_Above3(count) == count > 3

\* if count >= 3
IsRepeated(count) == count >= 3

\* [f"'{word}' ({count})" for word, count in word_count.items() if count >= 3]
RECURSIVE RepeatedList(_, _)
RepeatedList(keys, words) ==
    IF keys = <<>> THEN <<>>
    ELSE (IF IsRepeated(Count(keys[1], words))
          THEN <<[word |-> keys[1], count |-> Count(keys[1], words)]>>
          ELSE <<>>)
         \o RepeatedList(Tail(keys), words)

\* words after the detection of compounds
Words(s) == CompoundLoop(FindAll(s), 1, <<>>)

\* check_keyword_repetition(text)
check_keyword_repetition(s) ==
    IF s = <<>> THEN <<>>
    ELSE CHOOSE repeated \in
           { RepeatedList(CountedWords(words, <<>>), words) : words \in {Words(s)} } : TRUE

----------------------------------------------------------------------------
(* check_image_alt *)

Blog     == <<"/", "b", "l", "o", "g", "/">>
Category == <<"/", "c", "a", "t", "e", "g", "o", "r", "y", "/">>
Http     == <<"h", "t", "t", "p", ":", "/", "/">>
Https    == <<"h", "t", "t", "p", "s", ":", "/", "/">>
Data     == <<"d", "a", "t", "a", ":">>

\* the source of an img element [src, srcset, alt], empty for None:
\* src, or else the first url of srcset
ImageSrc(img) ==
    IF img.src /= <<>> THEN img.src
    ELSE IF img.srcset /= <<>>
         THEN Split(strip(Split(img.srcset, ",")[1]), " ")[1]
         ELSE <<>>

\* the source made absolute on the page at url
AbsoluteSrc(src, url) ==
    IF startswith(src, Http) \/ startswith(src, Https) THEN src ELSE urljoin(url, src)

\* the loop over all_images: <<total_images, images_without_alt>>
RECURSIVE ImageLoop(_, _, _, _)
ImageLoop(all_images, url, total_images, images_without_alt) ==
    IF all_images = <<>> THEN <<total_images, images_without_alt>>
    ELSE LET img == all_images[1]
             src == IF ImageSrc(img) = <<>> THEN <<>> ELSE AbsoluteSrc(ImageSrc(img), url)
             counted == /\ src /= <<>>
                        /\ ~startswith(src, Data)
                        /\ ~endswith(lower(src), DotPdf)
             missing == /\ counted
                        /\ strip(img.alt) = <<>>
                        /\ \A k \in DOMAIN images_without_alt : images_without_alt[k] /= src
         IN  ImageLoop(Tail(all_images), url,
                       IF counted THEN total_images + 1 ELSE total_images,
                       IF missing THEN Append(images_without_alt, src)
                       ELSE images_without_alt)

\* ''.join(linked_urls): one numbered span for each image url
RECURSIVE RenderImages(_, _)
RenderImages(urls, i) ==
    IF urls = <<>> THEN <<>>
    ELSE <<"<span>", ToString(i), ":", " ">> \o urls[1] \o <<"</span>">>
         \o RenderImages(Tail(urls), i + 1)

\* check_image_alt(soup, url)
check_image_alt(all_images, url) ==
    IF InStr(Blog, url) \/ InStr(Category, url) THEN <<"skip">>
    ELSE CHOOSE alt_check_result \in
           { IF found[1] = 0 THEN <<"no_images">>
             ELSE IF found[2] /= <<>>
                  THEN <<"missing_alt", ":", "<br>">> \o RenderImages(found[2], 1)
             ELSE <<"ok">> :
               found \in {ImageLoop(all_images, url, 0, <<>>)} } : TRUE

----------------------------------------------------------------------------
(* check_html_syntax *)

PhpOpen     == <<"<", "?", "p", "h", "p">>
PhpClose    == <<"?", ">">>
Placeholder == <<"P", "L", "A", "C", "E", "H", "O", "L", "D", "E", "R", "_", "0">>

\* the number of characters of context on each side of a match
ContextWidth == 25

\* s.find(sub, i - 1) + 1: the first position from i on at which sub occurs
\* in s, 0 for none
Find(s, sub, i) ==
    IF \E k \in i..(Len(s) - Len(sub) + 1) : SubSeq(s, k, k + Len(sub) - 1) = sub
    THEN CHOOSE k \in i..(Len(s) - Len(sub) + 1) :
           /\ SubSeq(s, k, k + Len(sub) - 1) = sub
           /\ \A j \in i..(k - 1) : SubSeq(s, j, j + Len(sub) - 1) /= sub
    ELSE 0

\* re.sub(r'<\?php.*?\?>', placeholder, content, flags=re.DOTALL): every
\* block from <?php to the next ?> becomes the placeholder, whose number is
\* always 0 because replacements stays empty
RECURSIVE SubPhp(_)
SubPhp(content) ==
    CHOOSE out \in
      { IF m[1] = 0 \/ m[2] = 0 THEN content
        ELSE Before(content, m[1]) \o Placeholder \o SubPhp(From(content, m[2] + 2)) :
          m \in { <<i, Find(content, PhpClose, i + 5)>> :
                    i \in {Find(content, PhpOpen, 1)} } } : TRUE

\* the position of the ; that ends a match of &[a-zA-Z]+; starting at the
\* & at position i, 0 when there is no match
EntityEnd(s, i) ==
    IF \E k \in (i + 2)..Len(s) :
          s[k] = ";" /\ \A j \in (i + 1)..(k - 1) : s[j] \in Letters
    THEN CHOOSE k \in (i + 2)..Len(s) :
           s[k] = ";" /\ \A j \in (i + 1)..(k - 1) : s[j] \in Letters
    ELSE 0

\* re.sub(r'&[a-zA-Z]+;', placeholder, content)
RECURSIVE SubEntities(_)
SubEntities(content) ==
    CHOOSE out \in
      { IF starts = {} THEN content
        ELSE Before(content, Nth(starts, 1)) \o Placeholder
             \o SubEntities(From(content, EntityEnd(content, Nth(starts, 1)) + 1)) :
          starts \in { { i \in DOMAIN content :
                           content[i] = "&" /\ EntityEnd(content, i) /= 0 } } } : TRUE

replace_special_content(content) == SubEntities(SubPhp(content))

important_tags ==
    << <<"d", "i", "v">>,
       <<"p">>,
       <<"s", "e", "c", "t", "i", "o", "n">>,
       <<"a", "r", "t", "i", "c", "l", "e">>,
       <<"m", "a", "i", "n">>,
       <<"h", "e", "a", "d", "e", "r">>,
       <<"f", "o", "o", "t", "e", "r">>,
       <<"n", "a", "v">>,
       <<"a", "s", "i", "d", "e">> >>

\* [m.start() for m in re.finditer(f'<{tag_name}[^>]*>', line)] from
\* position i on
RECURSIVE TagStarts(_, _, _)
TagStarts(line, tag_name, i) ==
    CHOOSE positions \in
      { IF m[1] = 0 \/ m[2] = 0 THEN <<>>
        ELSE <<m[1] - 1>> \o TagStarts(line, tag_name, m[2] + 1) :
          m \in { <<k, Find(line, <<">">>, k + Len(tag_name) + 1)>> :
                    k \in {Find(line, <<"<">> \o tag_name, i)} } } : TRUE

\* start_positions: (i + 1, m.start()) for the lines from number i + 1 on
RECURSIVE StartPositions(_, _, _)
StartPositions(lines, tag_name, i) ==
    IF i >= Len(lines) THEN <<>>
    ELSE CHOOSE positions \in
           { [k \in DOMAIN starts |-> <<i + 1, starts[k]>>]
             \o StartPositions(lines, tag_name, i + 1) :
               starts \in {TagStarts(lines[i + 1], tag_name, 1)} } : TRUE

\* len(end_positions): the matches of f'</{tag_name}>' in the lines
EndCount(lines, tag_name) ==
    Cardinality({ p \in UNION { {<<n, k>> : k \in DOMAIN lines[n]} : n \in DOMAIN lines } :
                    /\ p[2] + Len(tag_name) + 2 <= Len(lines[p[1]])
                    /\ SubSeq(lines[p[1]], p[2], p[2] + Len(tag_name) + 2)
                           = <<"<", "/">> \o tag_name \o <<">">> })

\* the texts that mark a context as a false detection
ignores ==
    { PhpOpen, PhpClose, <<"<", "!", "-", "-">>, <<"-", "-", ">">>, <<"[">>, <<"]">>, <<"&", "c", "o", "p", "y", ";">> }

\* original_line[context_start:context_end] for a match at pos (0-based)
Context(original_line, pos) ==
    IF pos - ContextWidth >= Len(original_line) THEN <<>>
    ELSE SubSeq(original_line,
                (IF pos > ContextWidth THEN pos - ContextWidth ELSE 0) + 1,
                IF pos + ContextWidth < Len(original_line)
                THEN pos + ContextWidth ELSE Len(original_line))

\* the entry of unclosed_tags for the start at (line_num, pos), if any
UnclosedTag(original_lines, tag_name, line_num, pos) ==
    CHOOSE entry \in
      { IF \/ \E ignore \in ignores : InStr(ignore, context)
           \/ InStr(<<"<", "/">> \o tag_name \o <<">">>, original_lines[line_num])
        THEN <<>>
        ELSE <<[tag_name |-> tag_name, line_num |-> line_num, context |-> context]>> :
          context \in {Context(original_lines[line_num], pos)} } : TRUE

\* unclosed_tags for tag_name: the starts from the (ends + 1)-th on
RECURSIVE UnclosedLoop(_, _, _, _)
UnclosedLoop(original_lines, tag_name, start_positions, i) ==
    IF i > Len(start_positions) THEN <<>>
    ELSE UnclosedTag(original_lines, tag_name,
                     start_positions[i][1], start_positions[i][2])
         \o UnclosedLoop(original_lines, tag_name, start_positions, i + 1)

\* unclosed_tags of one pass of for tag_name in important_tags
UnclosedTags(html_content, tag_name) ==
    CHOOSE unclosed_tags \in
      { UnclosedLoop(Split(html_content, "\n"), tag_name, p[1], p[2] + 1) :
          p \in { <<StartPositions(lines, tag_name, 0), EndCount(lines, tag_name)>> :
                    lines \in {Split(replace_special_content(html_content), "\n")} } } : TRUE

\* the lines that one tag adds to syntax_errors: the count, then one line
\* for each location
Warnings(tag_name, unclosed_tags) ==
    IF unclosed_tags = <<>> THEN <<>>
    ELSE << <<"unclosed", ":">> \o tag_name \o <<ToString(Len(unclosed_tags))>> >>
         \o [k \in DOMAIN unclosed_tags |->
               <<"line", ToString(unclosed_tags[k].line_num), ":", " ">>
               \o unclosed_tags[k].context]

\* the loop over important_tags from the i-th tag on
RECURSIVE TagLoop(_, _)
TagLoop(html_content, i) ==
    IF i > Len(important_tags) THEN <<>>
    ELSE Warnings(important_tags[i], UnclosedTags(html_content, important_tags[i]))
         \o TagLoop(html_content, i + 1)

\* check_html_syntax(html_content)
check_html_syntax(html_content) == TagLoop(html_content, 1)

----------------------------------------------------------------------------
(* get_page_info *)

ReportFields ==
    {"title", "description", "title_length", "description_length",
     "title_status", "description_status",
     "heading_issues", "english_only_headings", "images_without_alt", "html_syntax"}

\* a report whose fields all carry the same marker, the lengths being 0
MarkedReport(url, marker) ==
    [f \in ReportFields \cup {"url"} |->
        IF f = "url" THEN Normalized[url]
        ELSE IF f \in {"title_length", "description_length"} THEN 0
        ELSE <<marker>>]

\* "タイトルなし", the title of a page without a title element
TitleNashi == <<"U+30BF", "U+30A4", "U+30C8", "U+30EB", "U+306A", "U+3057">>

\* ", ".join(repetitions), each rendered as 'word' (count)
RECURSIVE RenderRepetitions(_)
RenderRepetitions(repetitions) ==
    IF repetitions = <<>> THEN <<>>
    ELSE <<"'">> \o repetitions[1].word \o <<"'", " ", "(", ToString(repetitions[1].count), ")">>
         \o (IF Len(repetitions) > 1 THEN <<",", " ">> ELSE <<>>)
         \o RenderRepetitions(Tail(repetitions))

\* the recommended lengths of a title and of a description
TitleLimit == 50
DescriptionLimit == 140

\* the status of a title or description: too long, repeated keywords,
\* both joined by <br>, or OK
TextStatus(s, limit) ==
    CHOOSE status \in
      { (IF Len(s) > limit /\ repetitions /= <<>>
         THEN <<"too_long", "<br>", "repetition", ":">> \o RenderRepetitions(repetitions)
         ELSE IF Len(s) > limit THEN <<"too_long">>
         ELSE IF repetitions /= <<>>
              THEN <<"repetition", ":">> \o RenderRepetitions(repetitions)
         ELSE <<"ok">>) :
          repetitions \in {check_keyword_repetition(s)} } : TRUE

\* the title block: title, title_length, title_status
TitleFields(result, page) ==
    LET title == IF page.has_title THEN strip(page.title) ELSE TitleNashi
    IN  [result EXCEPT !.title = title,
                       !.title_length = Len(title),
                       !.title_status = TextStatus(title, TitleLimit)]

\* the description block: the description meta element, or og:description
\* when that is absent or empty
DescriptionFields(result, page) ==
    LET description == IF strip(page.meta_description) /= <<>>
                       THEN strip(page.meta_description)
                       ELSE strip(page.og_description)
    IN  [result EXCEPT !.description = description,
                       !.description_length = Len(description),
                       !.description_status = TextStatus(description, DescriptionLimit)]

\* one formatted issue
RenderIssue(e) ==
    <<ToString(e.n), ":", " ", e.issue.kind, ToString(e.issue.from), ToString(e.issue.to)>>
    \o e.issue.text

\* one english-only heading, f"{heading.name}: {heading_text}"
RenderEnglish(e) == <<"h", ToString(e.name), ":", " ">> \o e.text

\* the heading block: heading_issues, english_only_headings
HeadingFields(result, page) ==
    CHOOSE updated \in
      { [result EXCEPT
           !.heading_issues =
               IF found[1] /= <<>>
               THEN Join([k \in DOMAIN found[1] |-> RenderIssue(found[1][k])], "<br>")
               ELSE <<"ok">>,
           !.english_only_headings =
               IF found[2] /= <<>>
               THEN Join([k \in DOMAIN found[2] |-> RenderEnglish(found[2][k])], "<br>")
               ELSE <<"ok">>] :
          found \in {check_heading_order(page.headings)} } : TRUE

\* the html block: the warnings of check_html_syntax joined, or OK
HtmlFields(result, page) ==
    CHOOSE updated \in
      { [result EXCEPT !.html_syntax = IF syntax_errors /= <<>>
                                       THEN Join(syntax_errors, "\n") ELSE <<"ok">>] :
          syntax_errors \in {check_html_syntax(page.html_content)} } : TRUE

\* the body of the try block of heuristic h
RunHeuristic(h, result, url, page) ==
    CASE h = "title"       -> TitleFields(result, page)
      [] h = "description" -> DescriptionFields(result, page)
      [] h = "heading"     -> HeadingFields(result, page)
      [] h = "image"       -> [result EXCEPT !.images_without_alt =
                                                 check_image_alt(page.images, url)]
      [] h = "html"        -> HtmlFields(result, page)

\* OnRaise leaving the page to the handler of the whole function, which
\* returns the report with every field marked as error
OnRaise_Outer(h, result) ==
    [f \in DOMAIN result |->
        IF f = "url" THEN result.url
        ELSE IF f \in {"title_length", "description_length"} THEN 0
        ELSE <<"error">>]

\* the except block of heuristic h: the fields keep the error marker that
\* the result was created with; the image block sets its marker itself
OnRaise(h, result) ==
    IF h = "image" THEN [result EXCEPT !.images_without_alt = <<"error">>]
    ELSE result

\* the try blocks in turn
RECURSIVE Analyse(_, _, _, _)
Analyse(hs, result, url, page) ==
    IF hs = <<>> THEN result
    ELSE Analyse(Tail(hs),
                 IF hs[1] \in page.raises THEN OnRaise(hs[1], result)
                 ELSE RunHeuristic(hs[1], result, url, page),
                 url, page)

\* the report of a page served: result starts with every field marked as
\* error and the analyses fill it in
AnalysedReport(url, page) ==
    Analyse(Heuristics, MarkedReport(url, "error"), url, page)

\* does get_page_info issue its requests.get
PageInfoFetches(url) == ~IsPreview[url]

\* get_page_info(url): the list of reports to append, empty for None
get_page_info(url, response) ==
    IF IsPreview[url] THEN <<MarkedReport(url, "skip")>>
    ELSE IF response.error THEN <<MarkedReport(url, "connection_error")>>
    ELSE IF response.status_code = 404 THEN <<>>
    ELSE IF response.status_code >= 400 THEN <<MarkedReport(url, "connection_error")>>
    ELSE <<AnalysedReport(url, response.page)>>

\* does get_page_info reach the analysis of the markup
PageInfoAnalyses(url, response) ==
    /\ ~IsPreview[url]
    /\ Served(response)

----------------------------------------------------------------------------
(* main: the crawl loop *)

\* check_keyword_repetition is not under test
PageOff == markup = PlainPage

HtmlOff ==
    /\ xstage = "off"
    /\ html_pieces = <<>>
    /\ unclosed = <<>>

TwinOff ==
    /\ web = <<>>
    /\ run = 0
    /\ first_results = <<>>

KwOff ==
    /\ kstage = "off"
    /\ title_words = <<>>
    /\ repeated_words = <<>>

\* check_heading_order is not under test
HeadOff ==
    /\ hstage = "off"
    /\ headings = <<>>
    /\ formatted_issues = <<>>
    /\ english_only_headings = <<>>

Init ==
    /\ pc = "idle"
    /\ seed = <<>>
    /\ base_domain = <<>>
    /\ visited_urls = {}
    /\ urls_to_visit = {}
    /\ results = <<>>
    /\ progress = <<0, 1>>
    /\ site = <<>>
    /\ linked = {}
    /\ dead_end = FALSE
    /\ gets = <<>>
    /\ analyses = <<>>
    /\ extracted = {}
    /\ popped = {}
    /\ nstage = "off"
    /\ input = <<>>
    /\ out1 = <<>>
    /\ out2 = <<>>
    /\ elements = {}
    /\ HtmlOff
    /\ PageOff
    /\ TwinOff
    /\ HeadOff
    /\ KwOff

\* the button is pressed with a url in the form
Start ==
    /\ pc = "idle"
    /\ \E url \in Seeds :
         /\ seed' = url
         /\ base_domain' = urlparse(url).netloc
         /\ urls_to_visit' = {url}
    /\ visited_urls' = {}
    /\ results' = <<>>
    /\ pc' = "loop"
    /\ UNCHANGED <<progress, site, linked, dead_end, gets, analyses, extracted, popped>>
    /\ UNCHANGED unitVars

\* the links of a 404 page that a served page would have added to the frontier
NewOn404(response, domain, visited, urls) ==
    /\ ~response.error
    /\ response.status_code = 404
    /\ (UNION { LinkTable[domain, h] : h \in response.hrefs }) \ (visited \cup urls) /= {}

\* Pop reading an element without removing it
Pop_Peek(urls, current_url) == urls

\* urls_to_visit after current_url = urls_to_visit.pop()
Pop(urls, current_url) == urls \ {current_url}

\* Unvisited testing the raw url against the visited set
Unvisited_Raw(current_url, visited) == current_url \notin visited

\* normalized_current_url not in visited_urls
Unvisited(current_url, visited) == Normalized[current_url] \notin visited

\* Merge assigning the new links instead of adding them
Merge_Assign(urls, new_links, visited) == new_links \ visited

\* urls_to_visit.update(new_links - visited_urls)
Merge(urls, new_links, visited) == urls \cup (new_links \ visited)

\* Progress reporting the share of urls still to visit
Progress_Remaining(visited, urls) ==
    <<Cardinality(urls), Cardinality(visited) + Cardinality(urls)>>

\* progress = len(visited_urls) / (len(visited_urls) + len(urls_to_visit)),
\* as <<numerator, denominator>>; a denominator 0 is the ZeroDivisionError
Progress(visited, urls) ==
    <<Cardinality(visited), Cardinality(visited) + Cardinality(urls)>>

\* min(progress, 1.0) on a fraction
Clamp(fraction) ==
    IF fraction[1] > fraction[2] THEN <<fraction[2], fraction[2]>> ELSE fraction

\* the body of if normalized_current_url not in visited_urls, for the url
\* that pop() returned; the site answers both requests for the url with
\* the same response
Process(current_url, response) ==
    LET page_info == get_page_info(current_url, response)
        new_links == get_all_links(current_url, base_domain, response)
    IN  /\ visited_urls' = visited_urls \cup {Normalized[current_url]}
        /\ site' = Append(site, [url |-> current_url,
                                 error |-> response.error,
                                 status_code |-> response.status_code])
        /\ linked' = IF Served(response)
                     THEN linked \cup response.hrefs ELSE linked
        /\ urls_to_visit' = Merge(Pop(urls_to_visit, current_url),
                                  new_links, visited_urls')
        /\ results' = results \o page_info
        /\ dead_end' = (dead_end \/ NewOn404(response, base_domain,
                                              visited_urls', urls_to_visit))
        /\ gets' = gets
                   \o (IF PageInfoFetches(current_url)
                       THEN <<[url |-> current_url, by |-> "get_page_info"]>>
                       ELSE <<>>)
                   \o <<[url |-> current_url, by |-> "get_all_links"]>>
        /\ analyses' = analyses
                   \o (IF PageInfoAnalyses(current_url, response)
                       THEN <<current_url>> ELSE <<>>)
        /\ extracted' = extracted \cup new_links

\* one iteration of while urls_to_visit, on the url that pop() returns
LoopIteration ==
    /\ pc = "loop"
    /\ urls_to_visit /= {}
    /\ \E current_url \in urls_to_visit :
         /\ popped' = popped \cup {current_url}
         /\ IF Unvisited(current_url, visited_urls)
            THEN \E response \in Responses : Process(current_url, response)
            ELSE /\ urls_to_visit' = Pop(urls_to_visit, current_url)
                 /\ UNCHANGED <<visited_urls, results, site, linked, dead_end,
                                gets, analyses, extracted>>
    /\ progress' = Progress(visited_urls', urls_to_visit')
    /\ UNCHANGED <<pc, seed, base_domain>>
    /\ UNCHANGED unitVars

\* urls_to_visit is empty: the loop is left and the results are shown
LoopExit ==
    /\ pc = "loop"
    /\ urls_to_visit = {}
    /\ pc' = "done"
    /\ UNCHANGED <<seed, base_domain, visited_urls, urls_to_visit, results,
                   progress, site, linked, dead_end, gets, analyses, extracted, popped>>
    /\ UNCHANGED unitVars

Next == Start \/ LoopIteration \/ LoopExit

Spec == Init /\ [][Next]_vars

\* a started loop keeps running: nothing in it waits for the user
LiveSpec == Spec /\ WF_vars(LoopIteration) /\ WF_vars(LoopExit)

----------------------------------------------------------------------------
(* NormSpec: normalize_url on bounded inputs *)

\* an input is the concatenation of at most MaxTokens of these pieces
MaxTokens == 4

Tokens ==
    { <<"x">>, <<"/">>, <<"%">>, <<"2", "5">>, <<"6", "1">>,
      <<".", "h", "t", "m", "l">>, <<".", "H", "t", "m", "L">>,
      <<"i", "n", "d", "e", "x", ".", "h", "t", "m", "l">>,
      <<"I", "N", "D", "E", "X", ".", "h", "t", "m", "l">> }

RECURSIVE Flatten(_)
Flatten(ts) == IF ts = <<>> THEN <<>> ELSE Head(ts) \o Flatten(Tail(ts))

\* the url string built so far
InputStr == Flatten(input)

NoCrawl ==
    /\ pc = "off"
    /\ seed = <<>>
    /\ base_domain = <<>>
    /\ visited_urls = {}
    /\ urls_to_visit = {}
    /\ results = <<>>
    /\ progress = <<0, 1>>
    /\ site = <<>>
    /\ linked = {}
    /\ dead_end = FALSE
    /\ gets = <<>>
    /\ analyses = <<>>
    /\ extracted = {}
    /\ popped = {}

NormInit ==
    /\ NoCrawl
    /\ elements = {}
    /\ HtmlOff
    /\ PageOff
    /\ TwinOff
    /\ HeadOff
    /\ KwOff
    /\ nstage = "build"
    /\ input = <<>>
    /\ out1 = <<>>
    /\ out2 = <<>>

AppendToken ==
    /\ nstage = "build"
    /\ Len(input) < MaxTokens
    /\ \E t \in Tokens : input' = Append(input, t)
    /\ UNCHANGED <<nstage, out1, out2>>
    /\ UNCHANGED <<crawlVars, linkVars, headVars, kwVars, pageVars, twinVars, htmlVars>>

\* normalized_current_url = normalize_url(current_url)
NormalizeOnce ==
    /\ nstage = "build"
    /\ input /= <<>>
    /\ out1' = normalize_url(InputStr)
    /\ nstage' = "once"
    /\ UNCHANGED <<input, out2>>
    /\ UNCHANGED <<crawlVars, linkVars, headVars, kwVars, pageVars, twinVars, htmlVars>>

\* the normalized url is normalized again (get_page_info, main)
NormalizeTwice ==
    /\ nstage = "once"
    /\ out2' = normalize_url(out1)
    /\ nstage' = "twice"
    /\ UNCHANGED <<input, out1>>
    /\ UNCHANGED <<crawlVars, linkVars, headVars, kwVars, pageVars, twinVars, htmlVars>>

NormNext == AppendToken \/ NormalizeOnce \/ NormalizeTwice

NormSpec == NormInit /\ [][NormNext]_vars

----------------------------------------------------------------------------
(* LinkSpec: the first iteration of the loop on a page of many link elements *)

LinkInit ==
    /\ pc = "markup"
    /\ seed = Origin \o <<"/">>
    /\ base_domain = urlparse(seed).netloc
    /\ visited_urls = {}
    /\ urls_to_visit = {seed}
    /\ results = <<>>
    /\ progress = <<0, 1>>
    /\ site = <<>>
    /\ linked = {}
    /\ dead_end = FALSE
    /\ gets = <<>>
    /\ analyses = <<>>
    /\ extracted = {}
    /\ popped = {}
    /\ nstage = "off"
    /\ input = <<>>
    /\ out1 = <<>>
    /\ out2 = <<>>
    /\ elements = {}
    /\ HtmlOff
    /\ PageOff
    /\ TwinOff
    /\ HeadOff
    /\ KwOff

\* the seed page carries one more link element
AddElement ==
    /\ pc = "markup"
    /\ Cardinality(elements) < MaxElements
    /\ \E href \in LinkPool \ elements : elements' = elements \cup {href}
    /\ UNCHANGED crawlVars
    /\ UNCHANGED <<normVars, headVars, kwVars, pageVars, twinVars, htmlVars>>

\* the first iteration of the loop: the seed is popped and its page, served
\* with status 200, carries the link elements
FirstIteration ==
    /\ pc = "markup"
    /\ \E current_url \in urls_to_visit :
         /\ popped' = popped \cup {current_url}
         /\ Unvisited(current_url, visited_urls)
         /\ Process(current_url, [error |-> FALSE, status_code |-> 200,
                                   hrefs |-> elements, page |-> PlainPage])
    /\ progress' = Progress(visited_urls', urls_to_visit')
    /\ pc' = "merged"
    /\ UNCHANGED <<seed, base_domain>>
    /\ UNCHANGED unitVars

LinkNext == AddElement \/ FirstIteration

LinkSpec == LinkInit /\ [][LinkNext]_vars

----------------------------------------------------------------------------
(* HeadSpec: check_heading_order on bounded lists of headings *)

\* at most MaxHeadings heading elements on the page
MaxHeadings == 3

\* texts of headings: an english one and a japanese one
HeadingTexts ==
    { <<"M", "e", "n", "u">>, <<"U+8A3A", "U+7642">> }

Headings == [level : 1..6, text : HeadingTexts]

\* normalize_url is not under test
NormOff ==
    /\ nstage = "off"
    /\ input = <<>>
    /\ out1 = <<>>
    /\ out2 = <<>>

HeadInit ==
    /\ NoCrawl
    /\ NormOff
    /\ elements = {}
    /\ HtmlOff
    /\ PageOff
    /\ TwinOff
    /\ hstage = "build"
    /\ headings = <<>>
    /\ formatted_issues = <<>>
    /\ english_only_headings = <<>>
    /\ KwOff

\* the page carries one more heading element
AddHeading ==
    /\ hstage = "build"
    /\ Len(headings) < MaxHeadings
    /\ \E heading \in Headings : headings' = Append(headings, heading)
    /\ UNCHANGED <<hstage, formatted_issues, english_only_headings>>
    /\ UNCHANGED <<crawlVars, normVars, linkVars, kwVars, pageVars, twinVars, htmlVars>>

\* heading_issues, english_only_headings = check_heading_order(soup)
CheckHeadingOrder ==
    /\ hstage = "build"
    /\ formatted_issues' = check_heading_order(headings)[1]
    /\ english_only_headings' = check_heading_order(headings)[2]
    /\ hstage' = "checked"
    /\ UNCHANGED headings
    /\ UNCHANGED <<crawlVars, normVars, linkVars, kwVars, pageVars, twinVars, htmlVars>>

HeadNext == AddHeading \/ CheckHeadingOrder

HeadSpec == HeadInit /\ [][HeadNext]_vars

----------------------------------------------------------------------------
(* KwSpec: check_keyword_repetition on bounded texts *)

\* the text holds at most MaxWords space-separated pieces
MaxWords == 5

\* the pieces: a latin word, a japanese word that is no medical term but
\* starts one, a medical term, a one-character piece that ends a medical
\* term, a stop word
Pieces == { <<"a", "b">>, Shoni, Shika, Ka, Kara }

\* the string passed to check_keyword_repetition
TextStr == Join(title_words, " ")

KwInit ==
    /\ NoCrawl
    /\ NormOff
    /\ elements = {}
    /\ HtmlOff
    /\ PageOff
    /\ TwinOff
    /\ HeadOff
    /\ kstage = "build"
    /\ title_words = <<>>
    /\ repeated_words = <<>>

\* the text is one piece longer
AddPiece ==
    /\ kstage = "build"
    /\ Len(title_words) < MaxWords
    /\ \E piece \in Pieces : title_words' = Append(title_words, piece)
    /\ UNCHANGED <<kstage, repeated_words>>
    /\ UNCHANGED <<crawlVars, normVars, linkVars, headVars, pageVars, twinVars, htmlVars>>

\* title_repetitions = check_keyword_repetition(title)
CheckKeywordRepetition ==
    /\ kstage = "build"
    /\ repeated_words' = check_keyword_repetition(TextStr)
    /\ kstage' = "checked"
    /\ UNCHANGED title_words
    /\ UNCHANGED <<crawlVars, normVars, linkVars, headVars, pageVars, twinVars, htmlVars>>

KwNext == AddPiece \/ CheckKeywordRepetition

KwSpec == KwInit /\ [][KwNext]_vars

----------------------------------------------------------------------------
(* PageSpec: the first iteration of the loop on a page of many elements *)

\* at most MaxPageHeadings heading elements, MaxImages img elements and
\* MaxRaises raising analyses on the seed page of PageSpec
MaxPageHeadings == 1
MaxImages == 1
MaxRaises == 1

AB == <<"a", "b">>

\* contents of the title element: padded, a word three times, and one
\* character more than the recommended length
Titles ==
    { <<" ">> \o AB \o <<" ">>, Join(<<AB, AB, AB>>, " "),
      [i \in 1..(TitleLimit + 1) |-> "a"] }

\* contents <<description, og:description>> of the meta elements, empty
\* for an element that is absent: a description, a blank description with
\* an og:description, and a description of one character more than the
\* recommended length
Descriptions ==
    { <<AB, <<>>>>, <<<<" ">>, <<"c", "d">>>>,
      <<[i \in 1..(DescriptionLimit + 1) |-> "a"], <<"c", "d">>>> }

\* heading elements: an english-only h1 and an h2
PageHeadings ==
    { [level |-> 1, text |-> <<"M", "e", "n", "u">>],
      [level |-> 2, text |-> <<"U+8A3A", "U+7642">>] }

\* img elements: without alt, with alt, and with srcset only and a blank alt
Images ==
    { [src |-> <<"p", ".", "p", "n", "g">>, srcset |-> <<>>, alt |-> <<>>],
      [src |-> <<"p", ".", "p", "n", "g">>, srcset |-> <<>>, alt |-> AB],
      [src |-> <<>>, srcset |-> <<"q", " ", "2", "x", ",", " ", "r">>, alt |-> <<" ">>] }

\* a text that check_html_syntax warns about
UnclosedTexts == { <<"<", "d", "i", "v", ">">> }

PageInit ==
    /\ pc = "markup"
    /\ seed = Origin \o <<"/">>
    /\ base_domain = urlparse(seed).netloc
    /\ visited_urls = {}
    /\ urls_to_visit = {seed}
    /\ results = <<>>
    /\ progress = <<0, 1>>
    /\ site = <<>>
    /\ linked = {}
    /\ dead_end = FALSE
    /\ gets = <<>>
    /\ analyses = <<>>
    /\ extracted = {}
    /\ popped = {}
    /\ NormOff
    /\ elements = {}
    /\ HtmlOff
    /\ HeadOff
    /\ KwOff
    /\ markup = PlainPage
    /\ TwinOff

\* the page gets its title element
AddTitle ==
    /\ pc = "markup"
    /\ ~markup.has_title
    /\ \E title \in Titles :
         markup' = [markup EXCEPT !.has_title = TRUE, !.title = title]
    /\ UNCHANGED crawlVars
    /\ UNCHANGED <<normVars, linkVars, headVars, kwVars, twinVars, htmlVars>>

\* the page gets its description meta elements
AddDescription ==
    /\ pc = "markup"
    /\ markup.meta_description = <<>>
    /\ markup.og_description = <<>>
    /\ \E content \in Descriptions :
         markup' = [markup EXCEPT !.meta_description = content[1],
                                  !.og_description = content[2]]
    /\ UNCHANGED crawlVars
    /\ UNCHANGED <<normVars, linkVars, headVars, kwVars, twinVars, htmlVars>>

\* the page gets one more heading element
AddPageHeading ==
    /\ pc = "markup"
    /\ Len(markup.headings) < MaxPageHeadings
    /\ \E heading \in PageHeadings :
         markup' = [markup EXCEPT !.headings = Append(@, heading)]
    /\ UNCHANGED crawlVars
    /\ UNCHANGED <<normVars, linkVars, headVars, kwVars, twinVars, htmlVars>>

\* the page gets one more img element
AddImage ==
    /\ pc = "markup"
    /\ Len(markup.images) < MaxImages
    /\ \E img \in Images :
         markup' = [markup EXCEPT !.images = Append(@, img)]
    /\ UNCHANGED crawlVars
    /\ UNCHANGED <<normVars, linkVars, headVars, kwVars, twinVars, htmlVars>>

\* the text of the page gets something that check_html_syntax warns about
AddSyntaxWarning ==
    /\ pc = "markup"
    /\ markup.html_content = <<>>
    /\ \E html_text \in UnclosedTexts :
         markup' = [markup EXCEPT !.html_content = html_text]
    /\ UNCHANGED crawlVars
    /\ UNCHANGED <<normVars, linkVars, headVars, kwVars, twinVars, htmlVars>>

\* the markup gets something that one more of the analyses raises on
AddRaise ==
    /\ pc = "markup"
    /\ Cardinality(markup.raises) < MaxRaises
    /\ \E h \in {Heuristics[k] : k \in DOMAIN Heuristics} \ markup.raises :
         markup' = [markup EXCEPT !.raises = @ \cup {h}]
    /\ UNCHANGED crawlVars
    /\ UNCHANGED <<normVars, linkVars, headVars, kwVars, twinVars, htmlVars>>

\* the first iteration of the loop: the seed is popped and its page, served
\* with status 200 and without links, is analysed
AnalysePage ==
    /\ pc = "markup"
    /\ \E current_url \in urls_to_visit :
         /\ popped' = popped \cup {current_url}
         /\ Unvisited(current_url, visited_urls)
         /\ Process(current_url, [error |-> FALSE, status_code |-> 200,
                                   hrefs |-> {}, page |-> markup])
    /\ progress' = Progress(visited_urls', urls_to_visit')
    /\ pc' = "merged"
    /\ UNCHANGED <<seed, base_domain>>
    /\ UNCHANGED unitVars

PageNext ==
    \/ AddTitle
    \/ AddDescription
    \/ AddPageHeading
    \/ AddImage
    \/ AddSyntaxWarning
    \/ AddRaise
    \/ AnalysePage

PageSpec == PageInit /\ [][PageNext]_vars

----------------------------------------------------------------------------
(* TwinSpec: the same site crawled twice from the same seed *)

\* the seed of both crawls
TwinSeed == Origin \o <<"/">>

\* the pages of the site, by normalized url: the site answers the raw forms
\* of a url with the same response
TwinSite == { Normalized[TwinSeed] } \cup { Normalized[LinkForm(h)] : h \in TwinHrefs }

\* a page served with status 200
Page200(hrefs, images) ==
    [error |-> FALSE, status_code |-> 200, hrefs |-> hrefs,
     page |-> [PlainPage EXCEPT !.images = images]]

\* the img elements of a page of the site: none, or one of those of PageSpec
TwinImages == { <<>> } \cup { <<img>> : img \in Images }

\* the sites: the seed page links to at most MaxLinks of TwinHrefs, every
\* other page is without links and has the same img elements
TwinWebs ==
    { [u \in TwinSite |->
         IF u = Normalized[TwinSeed] THEN Page200(hs, <<>>) ELSE Page200({}, images)] :
        hs \in { h \in SUBSET TwinHrefs : Cardinality(h) <= MaxLinks },
        images \in TwinImages }

TwinInit ==
    /\ pc = "loop"
    /\ seed = TwinSeed
    /\ base_domain = urlparse(seed).netloc
    /\ visited_urls = {}
    /\ urls_to_visit = {seed}
    /\ results = <<>>
    /\ progress = <<0, 1>>
    /\ site = <<>>
    /\ linked = {}
    /\ dead_end = FALSE
    /\ gets = <<>>
    /\ analyses = <<>>
    /\ extracted = {}
    /\ popped = {}
    /\ NormOff
    /\ elements = {}
    /\ HtmlOff
    /\ HeadOff
    /\ KwOff
    /\ PageOff
    /\ web \in TwinWebs
    /\ run = 1
    /\ first_results = <<>>

\* one iteration of while urls_to_visit; both requests for the url are
\* answered as the site answers its normalized form
TwinIteration ==
    /\ pc = "loop"
    /\ urls_to_visit /= {}
    /\ \E current_url \in urls_to_visit :
         /\ popped' = popped \cup {current_url}
         /\ IF Unvisited(current_url, visited_urls)
            THEN Process(current_url, web[Normalized[current_url]])
            ELSE /\ urls_to_visit' = Pop(urls_to_visit, current_url)
                 /\ UNCHANGED <<visited_urls, results, site, linked, dead_end,
                                gets, analyses, extracted>>
    /\ progress' = Progress(visited_urls', urls_to_visit')
    /\ UNCHANGED <<pc, seed, base_domain>>
    /\ UNCHANGED unitVars

\* urls_to_visit is empty: the loop is left and the results are shown
TwinExit ==
    /\ pc = "loop"
    /\ urls_to_visit = {}
    /\ pc' = "done"
    /\ UNCHANGED <<seed, base_domain, visited_urls, urls_to_visit, results,
                   progress, site, linked, dead_end, gets, analyses, extracted, popped>>
    /\ UNCHANGED unitVars

\* the button is pressed again with the same url in the form
TwinRerun ==
    /\ pc = "done"
    /\ run = 1
    /\ first_results' = results
    /\ run' = 2
    /\ urls_to_visit' = {seed}
    /\ visited_urls' = {}
    /\ results' = <<>>
    /\ pc' = "loop"
    /\ UNCHANGED <<seed, base_domain, progress, site, linked, dead_end, gets,
                   analyses, extracted, popped>>
    /\ UNCHANGED <<normVars, linkVars, headVars, kwVars, pageVars, web, htmlVars>>

TwinNext == TwinIteration \/ TwinExit \/ TwinRerun

TwinSpec == TwinInit /\ [][TwinNext]_vars

----------------------------------------------------------------------------
(* HtmlSpec: check_html_syntax on bounded texts *)

\* a text is the concatenation of at most MaxPieces of these pieces: a PHP
\* block of two lines, a newline, an opening and a closing tag, a named
\* character entity and a letter
MaxPieces == 4

HtmlPieces ==
    { <<"<", "?", "p", "h", "p", "\n", "?", ">">>,
      <<"\n">>,
      <<"<", "d", "i", "v", ">">>,
      <<"<", "/", "d", "i", "v", ">">>,
      <<"&", "l", "t", ";">>,
      <<"x">> }

\* the text built so far
HtmlStr == Flatten(html_pieces)

\* the entries of unclosed_tags of the tags from the i-th on
RECURSIVE AllUnclosed(_, _)
AllUnclosed(html_content, i) ==
    IF i > Len(important_tags) THEN <<>>
    ELSE UnclosedTags(html_content, important_tags[i]) \o AllUnclosed(html_content, i + 1)

HtmlInit ==
    /\ NoCrawl
    /\ NormOff
    /\ elements = {}
    /\ HeadOff
    /\ KwOff
    /\ PageOff
    /\ TwinOff
    /\ xstage = "build"
    /\ html_pieces = <<>>
    /\ unclosed = <<>>

AddHtmlPiece ==
    /\ xstage = "build"
    /\ Len(html_pieces) < MaxPieces
    /\ \E piece \in HtmlPieces : html_pieces' = Append(html_pieces, piece)
    /\ UNCHANGED <<xstage, unclosed>>
    /\ UNCHANGED <<crawlVars, normVars, linkVars, headVars, kwVars, pageVars, twinVars>>

\* syntax_errors = check_html_syntax(html_content)
CheckHtmlSyntax ==
    /\ xstage = "build"
    /\ unclosed' = AllUnclosed(HtmlStr, 1)
    /\ xstage' = "checked"
    /\ UNCHANGED html_pieces
    /\ UNCHANGED <<crawlVars, normVars, linkVars, headVars, kwVars, pageVars, twinVars>>

HtmlNext == AddHtmlPiece \/ CheckHtmlSyntax

HtmlSpec == HtmlInit /\ [][HtmlNext]_vars

----------------------------------------------------------------------------
(* Properties of the crawl loop (Spec, LiveSpec) *)

UrlRoot == Origin \o <<"/">>
UrlA    == Origin \o <<"/", "a", "/">>
UrlAEnc == Origin \o <<"/", "%", "6", "1", "/">>
UrlPdf  == Origin \o <<"/", "d", ".", "P", "D", "F">>

NotFound(entry) == ~entry.error /\ entry.status_code = 404

\* number of requests issued for urls whose normalized form is n
GetsFor(n) == Cardinality({ i \in DOMAIN gets : Normalized[gets[i].url] = n })

\* number of analyses performed for urls whose normalized form is n
AnalysesFor(n) == Cardinality({ i \in DOMAIN analyses : Normalized[analyses[i]] = n })

\* C1: over the whole run, at most one HTTP GET is issued and at most one
\* analysis is performed for every normalized url.
C1_FetchedAndAnalysedAtMostOnce ==
    \A n \in visited_urls : GetsFor(n) <= 1 /\ AnalysesFor(n) <= 1

\* C2: the reports list holds at most one report per normalized url; of the
\* raw urls with one normalized form that are popped, only the first is
\* processed (it alone is fetched and can create the report).
C2_OneReportPerNormalizedUrl ==
    /\ \A i, j \in DOMAIN results : results[i].url = results[j].url => i = j
    /\ \A i, j \in DOMAIN site :
         Normalized[site[i].url] = Normalized[site[j].url] => i = j
    /\ \A i \in DOMAIN results :
         \E j \in DOMAIN site : results[i].url = Normalized[site[j].url]
    /\ Len(results) <= Len(site)

\* both raw forms of one normalized url were popped and one report stands for them
C2_Witness ==
    /\ {UrlA, UrlAEnc} \subseteq popped
    /\ Cardinality({ i \in DOMAIN results : results[i].url = UrlA }) = 1

\* C3: a url whose fetch returned status 404 never appears (in its
\* normalized form, the form of report urls) as the url of a report.
C3_NotFoundNeverReported ==
    \A i \in DOMAIN site :
        NotFound(site[i]) =>
            \A j \in DOMAIN results : results[j].url /= Normalized[site[i].url]

\* the step processes a url that the site answers with 404
NotFoundStep ==
    /\ Len(site') = Len(site) + 1
    /\ NotFound(site'[Len(site')])

\* C4: the iteration that processes a 404 page adds no url to the frontier
\* and extracts no link, whatever links the page contains.
C4_NoExpansionThrough404 ==
    [][NotFoundStep => (urls_to_visit' \subseteq urls_to_visit /\ extracted' = extracted)]_vars

\* the crawl ended after a 404 page that carried a new crawlable link
C4_Witness ==
    /\ pc = "done"
    /\ \E i \in DOMAIN site : NotFound(site[i])
    /\ dead_end

\* same-domain urls found by following the links of the pages served
SameDomainLinked ==
    { urljoin(seed, h) : h \in { g \in linked : urlparse(urljoin(seed, g)).netloc = base_domain } }

C6_Terminates ==
    /\ (pc = "loop") ~> (pc = "done")
    /\ [](pc = "done" => urls_to_visit = {})
    /\ [](pc = "loop" /\ urls_to_visit /= {} => ~ENABLED LoopExit)

\* the loop was left after three pages, one of them linking back
C6_Witness ==
    /\ pc = "done"
    /\ Len(site) >= 3
    /\ UrlRoot \in extracted

\* C7: after the request of get_page_info for a popped url failed at the
\* transport level, a report with every field set to the connection-error
\* marker is in reports, the url is in visited, and exactly one request was
\* issued for the url (no retry).
C7_TransportFailureNoRetry ==
    \A i \in DOMAIN site :
        (site[i].error /\ PageInfoFetches(site[i].url)) =>
            /\ MarkedReport(site[i].url, "connection_error") \in { results[j] : j \in DOMAIN results }
            /\ Normalized[site[i].url] \in visited_urls
            /\ GetsFor(Normalized[site[i].url]) = 1

\* the step processes a preview url
PreviewStep ==
    /\ Len(site') = Len(site) + 1
    /\ IsPreview[site'[Len(site')].url]

\* C13: when a preview url is popped it is marked visited, the report with
\* every analytical field marked skipped is appended, no HTTP request is
\* issued for it and no link of that page is extracted or added to the
\* frontier.
C13_PreviewExcluded ==
    [][PreviewStep =>
         LET url == site'[Len(site')].url
         IN  /\ Normalized[url] \in visited_urls'
             /\ results' = Append(results, MarkedReport(url, "skip"))
             /\ gets' = gets
             /\ extracted' = extracted
             /\ urls_to_visit' \subseteq urls_to_visit]_vars

\* main creates visited_urls, urls_to_visit and results and nothing else:
\* what the crawl state keeps of reports for 404 pages
notFound == <<>>

\* C15: whenever the fetch of get_page_info for a popped url is answered
\* with 404, a report for the url is in the notFound collection of the
\* crawl state and none is in reports.
C15_NotFoundFiledSeparately ==
    \A i \in DOMAIN site :
        (NotFound(site[i]) /\ PageInfoFetches(site[i].url)) =>
            /\ \E j \in DOMAIN notFound : notFound[j].url = Normalized[site[i].url]
            /\ \A j \in DOMAIN results : results[j].url /= Normalized[site[i].url]

\* C18: the merge step adds no link whose normalized form is already in the
\* visited set.
C18_MergeComparesNormalized ==
    [][\A l \in urls_to_visit' \ urls_to_visit : Normalized[l] \notin visited_urls']_vars

\* C19: every url of the frontier other than the seed has the host of the
\* seed, and every request of the crawl goes to that host.
C19_FrontierOnTargetDomain ==
    /\ \A u \in urls_to_visit \ {seed} : Netloc[u] = base_domain
    /\ \A i \in DOMAIN gets : Netloc[gets[i].url] = base_domain

\* the crawl ended after a served page carried a link to another host and a
\* link that was followed
C19_Witness ==
    /\ pc = "done"
    /\ Other \o <<"/">> \in linked
    /\ Len(site) >= 2
    /\ \A i \in DOMAIN gets : Netloc[gets[i].url] = <<"x">>

\* C20: at every progress update the denominator is at least 1, the clamped
\* value lies in (0, 1], and it is 1 exactly when the frontier is empty, as
\* on the last iteration.
C20_ProgressInRange ==
    popped /= {} =>
        /\ progress[2] >= 1
        /\ Clamp(progress)[1] > 0
        /\ Clamp(progress)[1] <= Clamp(progress)[2]
        /\ (urls_to_visit = {}) <=> (Clamp(progress)[1] = Clamp(progress)[2])
        /\ pc = "done" => Clamp(progress)[1] = Clamp(progress)[2]

\* the loop was left after an update below 1 had been followed by the last one
C20_Witness ==
    /\ pc = "done"
    /\ Cardinality(visited_urls) >= 2
    /\ progress = <<Cardinality(visited_urls), Cardinality(visited_urls)>>

----------------------------------------------------------------------------
(* Properties of the link extractor (LinkSpec) *)

\* absolute_url = urljoin(url, href) on the seed page
Target(href) == urljoin(seed, href)

FragmentLink(t)  == Contains(t, "#")
OffDomainLink(t) == ~FragmentLink(t) /\ urlparse(t).netloc /= base_domain
PdfLink(t)       == ~FragmentLink(t) /\ ~OffDomainLink(t) /\ endswith(lower(t), DotPdf)
PreviewLink(t)   == is_preview_url(t)
IndexLink(t)     == endswith(lower(urlparse(t).path), IndexHtml)
InternalLink(t)  ==
    ~(FragmentLink(t) \/ OffDomainLink(t) \/ PdfLink(t) \/ PreviewLink(t) \/ IndexLink(t))

\* the page of the end-to-end example: two internal links that are no
\* duplicates of each other or of the seed after normalization, one fragment
\* link, one off-domain link, one .pdf link, and nothing else
ExamplePage ==
    /\ Cardinality(elements) = 5
    /\ Cardinality({ href \in elements : FragmentLink(Target(href)) }) = 1
    /\ Cardinality({ href \in elements : OffDomainLink(Target(href)) }) = 1
    /\ Cardinality({ href \in elements : PdfLink(Target(href)) }) = 1
    /\ Cardinality({ href \in elements : InternalLink(Target(href)) }) = 2
    /\ Cardinality({ normalize_url(Target(href)) :
                       href \in { h \in elements : InternalLink(Target(h)) } }
                   \cup {normalize_url(seed)}) = 3

\* C11: every link returned by the link extractor has the host of the target
\* domain, contains no '#', does not end in .pdf, is not a preview url and
\* has a path not ending in index.html; and the page of the end-to-end
\* example expands the frontier, empty after the pop of the seed, by
\* exactly 2.
C11_ReturnedLinksSurviveFilter ==
    pc = "merged" =>
        /\ \A l \in extracted :
              /\ urlparse(l).netloc = base_domain
              /\ ~Contains(l, "#")
              /\ ~endswith(lower(l), DotPdf)
              /\ ~is_preview_url(l)
              /\ ~endswith(lower(urlparse(l).path), IndexHtml)
        /\ ExamplePage => Cardinality(urls_to_visit) = 2

----------------------------------------------------------------------------
(* Properties of check_heading_order (HeadSpec) *)

Level(i) == headings[i].level

\* the positions at which the claim has an issue emitted
Flagged ==
    { i \in 1..Len(headings) :
        \/ i = 1 /\ Level(1) /= 1
        \/ i > 1 /\ Level(i) - Level(i - 1) > 1 }

\* the number of the issue of a flagged position, in emission order
IssueNumber(i) == Cardinality({ j \in Flagged : j <= i })

\* the list of heading levels of the page
Levels == [i \in 1..Len(headings) |-> Level(i)]

\* C16: check_heading_order emits exactly one 'first heading is h{L}' issue
\* iff the first heading has level L /= 1, and one 'jumps from h{p} to h{L}'
\* issue for each later heading whose level exceeds the previous level by
\* more than 1, and nothing else; the issues are numbered 1..N in emission
\* order. [h1,h3] yields one issue, [h2,h3] only the first-heading issue,
\* [h1,h2,h3] none.
C16_HeadingIssuesExact ==
    hstage = "checked" =>
        /\ Len(formatted_issues) = Cardinality(Flagged)
        /\ \A k \in DOMAIN formatted_issues : formatted_issues[k].n = k
        /\ \A i \in Flagged :
              formatted_issues[IssueNumber(i)].issue =
                  IF i = 1
                  THEN [kind |-> "first", from |-> 0, to |-> Level(1),
                        text |-> headings[1].text]
                  ELSE [kind |-> "jump", from |-> Level(i - 1), to |-> Level(i),
                        text |-> headings[i].text]
        /\ Levels = <<1, 3>> =>
              /\ Len(formatted_issues) = 1
              /\ formatted_issues[1].issue.kind = "jump"
        /\ Levels = <<2, 3>> =>
              /\ Len(formatted_issues) = 1
              /\ formatted_issues[1].issue.kind = "first"
        /\ Levels = <<1, 2, 3>> => formatted_issues = <<>>

\* a page whose first heading is not h1, followed by a jump and by a
\* decreasing step, was checked and two issues were emitted
C16_Witness ==
    /\ hstage = "checked"
    /\ Levels = <<2, 4, 1>>
    /\ Len(formatted_issues) = 2
    /\ formatted_issues[2].issue.kind = "jump"

----------------------------------------------------------------------------
(* Properties of check_keyword_repetition (KwSpec) *)

\* the tokens of the text
Tokens17 == FindAll(TextStr)

\* the tokens reported
Flagged17 == { repeated_words[i].word : i \in DOMAIN repeated_words }

\* a 2+ character token that is neither a stop word nor a medical term
Candidate(w) ==
    /\ Len(w) >= 2
    /\ w \notin stop_words
    /\ w \notin medical_specialties

\* C17 as stated: a token is reported iff it is a 2+ character token that
\* is neither a stop word nor an allowlisted term and occurs at least 3
\* times in the text.
C17_FlaggedIffThreeOccurrences ==
    kstage = "checked" =>
        \A i \in DOMAIN Tokens17 :
            (Tokens17[i] \in Flagged17) <=>
                (Candidate(Tokens17[i]) /\ Count(Tokens17[i], Tokens17) >= 3)

\* C17 amended: a token is reported, once and with its count, iff it is a
\* 2+ character token that is neither a stop word nor an allowlisted term
\* and at least 3 of its occurrences are left after the adjacent tokens that
\* together spell an allowlisted term were taken as that term; nothing else
\* is reported. A latin token (never part of such a term) occurring exactly
\* 3 times is reported, one occurring exactly 2 times is not, and an
\* allowlisted term is never reported, also when it occurs 5 times.
C17_FlaggedIffThreeFreeOccurrences ==
    kstage = "checked" =>
        /\ \A i \in DOMAIN Tokens17 :
              (Tokens17[i] \in Flagged17) <=>
                  (Candidate(Tokens17[i]) /\ Count(Tokens17[i], Words(TextStr)) >= 3)
        /\ \A i \in DOMAIN repeated_words :
              /\ \E j \in DOMAIN Tokens17 : Tokens17[j] = repeated_words[i].word
              /\ repeated_words[i].count = Count(repeated_words[i].word, Words(TextStr))
              /\ \A j \in DOMAIN repeated_words :
                    repeated_words[j].word = repeated_words[i].word => j = i
        /\ Count(<<"a", "b">>, title_words) = 3 => <<"a", "b">> \in Flagged17
        /\ Count(<<"a", "b">>, title_words) = 2 => <<"a", "b">> \notin Flagged17
        /\ Shika \notin Flagged17

\* a text with a latin word three times and a word followed by the term
\* that it spells an allowlisted term with was checked: the latin word alone
\* was reported, the two other pieces were taken as the allowlisted term
C17_Witness ==
    /\ kstage = "checked"
    /\ title_words = <<<<"a", "b">>, <<"a", "b">>, Shoni, Shika, <<"a", "b">>>>
    /\ Words(TextStr) = <<<<"a", "b">>, <<"a", "b">>, Shoni \o Shika, <<"a", "b">>>>
    /\ repeated_words = <<[word |-> <<"a", "b">>, count |-> 3]>>

----------------------------------------------------------------------------
(* Properties of the analyses of get_page_info (PageSpec) *)

\* the fields of the report that heuristic h fills in
FieldsOf(h) ==
    CASE h = "title"       -> {"title", "title_length", "title_status"}
      [] h = "description" -> {"description", "description_length", "description_status"}
      [] h = "heading"     -> {"heading_issues", "english_only_headings"}
      [] h = "image"       -> {"images_without_alt"}
      [] h = "html"        -> {"html_syntax"}

\* the error marker of a field: the text that result is created with, and
\* 0 for the lengths
ErrorMarker(f) ==
    IF f \in {"title_length", "description_length"} THEN 0 ELSE <<"error">>

\* the report of the seed page had none of the analyses raised
Unfailed == AnalysedReport(seed, [markup EXCEPT !.raises = {}])

\* C14: when exactly one of the analyses raises on the page fetched, the
\* report is still appended to results, the fields of that analysis carry
\* the error marker, and every other field has the value that it has when
\* nothing raises.
C14_FailureIsolated ==
    (pc = "merged" /\ Cardinality(markup.raises) = 1) =>
        /\ Len(results) = 1
        /\ \A h \in markup.raises, unfailed \in {Unfailed} :
             /\ \A f \in FieldsOf(h) : results[1][f] = ErrorMarker(f)
             /\ \A f \in ReportFields \ FieldsOf(h) : results[1][f] = unfailed[f]
             /\ results[1].url = unfailed.url

\* a page with a title, an english-only h1 and an image without alt, on
\* which the heading analysis raises: the title and image fields are filled
C14_Witness ==
    /\ pc = "merged"
    /\ markup.raises = {"heading"}
    /\ markup.has_title
    /\ markup.headings /= <<>>
    /\ markup.images /= <<>>
    /\ Len(results) = 1
    /\ results[1].heading_issues = <<"error">>
    /\ results[1].title_status = <<"ok">>
    /\ results[1].images_without_alt[1] = "missing_alt"

----------------------------------------------------------------------------
(* Properties of two crawls of the same site (TwinSpec) *)

\* the reports of a list, as a set
Reports(list) == { list[k] : k \in DOMAIN list }

\* C12: two crawls of an unchanged site from the same seed end with the
\* same set of reports, whatever the order in which the urls are popped
\* and whichever raw form of a url is popped first.
C12_TwinCrawlsSetEqual ==
    (pc = "done" /\ run = 2) => Reports(results) = Reports(first_results)

----------------------------------------------------------------------------
(* Properties of normalize_url (NormSpec) *)

\* s contains a percent-escape, the only thing unquote rewrites
HasEscape(s) ==
    \E i \in 1..(Len(s) - 2) :
        s[i] = "%" /\ s[i + 1] \in HexDigits /\ s[i + 2] \in HexDigits

Normalized1 == nstage \in {"once", "twice"}

\* C8: normalize_url(normalize_url(u)) = normalize_url(u) for every u.
C8_Idempotent == nstage = "twice" => out2 = out1

\* C9: for a prefix P without percent-escapes, P + "/index.html" (in any
\* letter case) and P + "/" both normalize to P + "/".
C9_IndexHtmlFolded ==
    (Normalized1 /\ ~HasEscape(InputStr)) =>
        /\ endswith(lower(InputStr), SlashIndexHtml) =>
               out1 = DropLast(InputStr, 11) \o <<"/">>
        /\ endswith(InputStr, <<"/">>) => out1 = InputStr

\* an upper-case /INDEX.html after a prefix was folded to the prefix and a slash
C9_Witness ==
    /\ Normalized1
    /\ ~HasEscape(InputStr)
    /\ Len(InputStr) > 11
    /\ endswith(InputStr, <<"/", "I", "N", "D", "E", "X", ".", "h", "t", "m", "l">>)
    /\ out1 = DropLast(InputStr, 10)

\* the string after decoding and index.html folding
Folded == FoldIndexHtml(unquote(InputStr))

\* C10 as stated: a folded string ending in .html is returned as it is; any
\* other result ends with exactly one trailing slash, appended if absent.
C10_ExactlyOneTrailingSlash ==
    Normalized1 =>
        IF endswith(lower(Folded), DotHtml)
        THEN out1 = Folded
        ELSE /\ endswith(out1, <<"/">>)
             /\ ~endswith(out1, <<"/", "/">>)
             /\ out1 \in {Folded, Folded \o <<"/">>}

\* C21: a url P + "index.html" (in any letter case) whose P does not end
\* with a slash and has no percent-escapes normalizes to P under the
\* trailing-slash rule: all 10 characters of index.html are stripped.
C21_IndexHtmlStrippedWhole ==
    (/\ Normalized1
     /\ ~HasEscape(InputStr)
     /\ endswith(lower(InputStr), IndexHtml)
     /\ ~endswith(lower(InputStr), SlashIndexHtml)) =>
        out1 = TrailingSlash(DropLast(InputStr, 10))

----------------------------------------------------------------------------
(* Properties of check_html_syntax (HtmlSpec) *)

\* the lines of the original text
OriginalLines == Split(HtmlStr, "\n")

\* C22: every entry of unclosed_tags carries the number of a line of the
\* original text on which an opening tag of its kind occurs, and its
\* context is the window of ContextWidth characters to each side of that
\* opening tag in the original text.
C22_WarningsPointAtOpeningTag ==
    xstage = "checked" =>
        \A k \in DOMAIN unclosed :
            \E starts \in {TagStarts(OriginalLines[unclosed[k].line_num],
                                     unclosed[k].tag_name, 1)} :
                \E n \in DOMAIN starts :
                    unclosed[k].context =
                        Context(OriginalLines[unclosed[k].line_num], starts[n])

====
